---- MODULE Spec2Model ----
(***************************************************************************)
(* Model of src/resampler.rs: the chroma upsampler of the JPEG decoder.    *)
(* Resampler::new picks one row resampling function per component from the *)
(* sampling factors; resample_and_interleave_row runs each component's     *)
(* function into a scratch row and scatters it into the interleaved output.*)
(*                                                                         *)
(* Slices (&[u8], &mut [u8]) are sequences; Rust index i is position i+1.  *)
(* An out-of-range index panics: a buffer carries a panic flag and every   *)
(* later statement of the panicked call is skipped.                        *)
(***************************************************************************)
EXTENDS Integers, Sequences, FiniteSets, TLC

VARIABLES
    \* the program: Resampler::new and resample_and_interleave_row
    components,      \* the &[Component] last given to Resampler::new
    resampler,       \* its result: None, or Some(Resampler)
    component_data,  \* the decoded planes (&[Vec<u8>])
    output_buffer,   \* the caller's output row (&mut [u8])
    last_call,       \* arguments and scratch rows of the last row call
    \* one call of one ResampleFunc
    f_func, f_input, f_input_size, f_row_stride, f_row, f_output_width, f_output,
    \* one evaluation of the near/far source row mapping
    row_map,
    pc

vars == <<components, resampler, component_data, output_buffer, last_call,
          f_func, f_input, f_input_size, f_row_stride, f_row, f_output_width, f_output,
          row_map, pc>>

progVars == <<components, resampler, component_data, output_buffer, last_call>>
rowVars == <<f_func, f_input, f_input_size, f_row_stride, f_row, f_output_width, f_output>>

(***************************************************************************)
(* Bounds of the model.                                                    *)
(***************************************************************************)
MaxFactor == 4          \* sampling factors offered to Resampler::new
MaxComponents == 3      \* components offered to Resampler::new
MaxWidth == 3           \* component width (samples) of the single-row runs
MaxHeight == 2          \* component height (rows) of the single-row runs
MaxMapHeight == 8       \* small source heights of the row-mapping runs
MaxExtra == 1           \* output_width ranges up to 2*width + MaxExtra
MaxRowComponents == 2   \* components of a Resampler that row calls are made on
MaxCallWidth == 2       \* component width of those components
MaxCallHeight == 2      \* component height of those components
MaxOutputWidth == 4     \* output_width of a row call
MaxSeed == 2            \* distinct contents tried for each decoded plane
MaxCalls == 2           \* row calls made on one output buffer

\* Sample values the planes of the single-row runs are filled with.
SampleValues == {0, 1, 255}

(***************************************************************************)
(* Integer arithmetic of the code.                                         *)
(***************************************************************************)
\* `as u8`: keeps the low 8 bits.
AsU8(x) == x % 256

\* u32 arithmetic wraps modulo 2^32 (written over 16-bit halves).
U32_as_u8(x) == x % 256
U32(x) == ((x \div 65536) % 65536) * 65536 + (x % 65536)

RECURSIVE Pow2(_)
Pow2(n) == IF n = 0 THEN 1 ELSE 2 * Pow2(n - 1)

\* `>>` on u32.
Shr(x, n) == x \div Pow2(n)

MinOf(S) == CHOOSE m \in S : \A y \in S : m <= y
MaxOf(S) == CHOOSE m \in S : \A y \in S : m >= y

(***************************************************************************)
(* f32 arithmetic of the row mapping.  A real value v that is a multiple   *)
(* of 1/4 is held as the integer 4*v ("quarters").  f32 has a 24-bit       *)
(* significand: every operation rounds its exact result to the nearest     *)
(* representable value, ties to the even significand.                      *)
(***************************************************************************)
RECURSIVE F32Ulp(_, _)
F32Ulp(a, u) == IF a \div u < 16777216 THEN u ELSE F32Ulp(a, 2 * u)

F32RoundAbs(a) ==
    LET u == F32Ulp(a, 1)
        lo == (a \div u) * u
        rem == a - lo
    IN  IF 2 * rem < u THEN lo
        ELSE IF 2 * rem > u THEN lo + u
        ELSE IF (a \div u) % 2 = 0 THEN lo ELSE lo + u

F32Round(q) == IF q < 0 THEN 0 - F32RoundAbs(0 - q) ELSE F32RoundAbs(q)

\* `n as f32` for a usize n.
AsF32(n) == F32Round(4 * n)

\* `x as usize` for an f32 x: truncates toward zero, negative values give 0.
AsUsize(q) == IF q < 0 THEN 0 ELSE q \div 4

\* f32::fract for x >= 0.
Fract(q) == q % 4

\* f32::min.
F32Min(a, b) == IF a < b THEN a ELSE b

\* line 101 / 115: let row_near = row as f32 / 2.0;
row_near_f32(row) == AsF32(row) \div 2

\* line 104 / 118: (row_near + row_near.fract() * 3.0 - 0.25).min((height - 1) as f32)
row_far_f32_unclamped(row, height) ==
    LET row_near == row_near_f32(row)
    IN  F32Round(F32Round(row_near + F32Round(Fract(row_near) * 3)) - 1)
row_far_f32(row, height) ==
    LET row_near == row_near_f32(row)
    IN  F32Min(F32Round(F32Round(row_near + F32Round(Fract(row_near) * 3)) - 1),
               AsF32(height - 1))

\* line 106 / 120: row_near as usize;  line 107 / 121: row_far as usize
row_near_index(row) == AsUsize(row_near_f32(row))
row_far_index(row, height) == AsUsize(row_far_f32(row, height))

(***************************************************************************)
(* Slices and the write-logged output buffer.                              *)
(***************************************************************************)
Readable(s, i) == i >= 0 /\ i < Len(s)
At(s, i) == IF Readable(s, i) THEN s[i + 1] ELSE 0

\* &input[off ..]  (off <= len is checked by the caller of Slice)
Slice(s, off) == SubSeq(s, off + 1, Len(s))

Zeros(n) == [k \in 1..n |-> 0]

\* A &mut [u8] with the history of the call's writes: log holds, per write,
\* the index, the u32 value before the shift, the shift and the input samples
\* the expression blends.
Buffer(mem) == [mem |-> mem, log |-> <<>>, panic |-> FALSE]

Panic(buf) == [buf EXCEPT !.panic = TRUE]

\* output[idx] = ((sum) >> shift) as u8, where reads tells whether every input
\* index the expression reads is in range.
Assign(buf, idx, reads, sum, shift, src) ==
    IF buf.panic THEN buf
    ELSE IF ~reads \/ idx < 0 \/ idx >= Len(buf.mem) THEN Panic(buf)
    ELSE [buf EXCEPT !.mem[idx + 1] = AsU8(Shr(U32(sum), shift)),
                     !.log = Append(@, [idx |-> idx, sum |-> sum,
                                        shift |-> shift, src |-> src])]

Written(buf) == {buf.log[k].idx : k \in 1..Len(buf.log)}

(***************************************************************************)
(* resample_row_1 (lines 70-76)                                            *)
(***************************************************************************)
RECURSIVE row_1_loop(_, _, _, _)
row_1_loop(input, i, output_width, output) ==
    IF i >= output_width THEN output
    ELSE row_1_loop(input, i + 1, output_width,
                    Assign(output, i, Readable(input, i), At(input, i), 0,
                           {At(input, i)}))

resample_row_1_by_width(input, input_size, row_stride, row, output_width, output) ==
    IF row * row_stride > Len(input) THEN Panic(output)
    ELSE row_1_loop(Slice(input, row * row_stride), 0, input_size.width, output)
resample_row_1(input, input_size, row_stride, row, output_width, output) ==
    IF row * row_stride > Len(input) THEN Panic(output)
    ELSE row_1_loop(Slice(input, row * row_stride), 0, output_width, output)

(***************************************************************************)
(* resample_row_h_2_bilinear (lines 78-98)                                 *)
(***************************************************************************)
\* lines 82-83
h2_single(input, output) ==
    LET o0 == Assign(output, 0, Readable(input, 0), At(input, 0), 0, {At(input, 0)})
    IN  Assign(o0, 1, Readable(input, 0), At(input, 0), 0, {At(input, 0)})

\* lines 87-88
h2_left_edge_unrounded(input, output) ==
    LET o0 == Assign(output, 0, Readable(input, 0), At(input, 0), 0, {At(input, 0)})
    IN  Assign(o0, 1, Readable(input, 0) /\ Readable(input, 1),
               At(input, 0) * 3 + At(input, 1), 2,
               {At(input, 0), At(input, 1)})
h2_left_edge(input, output) ==
    LET o0 == Assign(output, 0, Readable(input, 0), At(input, 0), 0, {At(input, 0)})
    IN  Assign(o0, 1, Readable(input, 0) /\ Readable(input, 1),
               At(input, 0) * 3 + At(input, 1) + 2, 2,
               {At(input, 0), At(input, 1)})

\* lines 91-93
h2_body(input, i, output) ==
    LET sample == 3 * At(input, i) + 2
        o0 == Assign(output, i * 2,
                     Readable(input, i) /\ Readable(input, i - 1),
                     sample + At(input, i - 1), 2,
                     {At(input, i), At(input, i - 1)})
    IN  Assign(o0, i * 2 + 1,
               Readable(input, i) /\ Readable(input, i + 1),
               sample + At(input, i + 1), 2,
               {At(input, i), At(input, i + 1)})

\* line 90: for i in 1 .. input_size.width - 1
RECURSIVE h2_loop(_, _, _, _)
h2_loop(input, i, end, output) ==
    IF i >= end THEN output
    ELSE h2_loop(input, i + 1, end, h2_body(input, i, output))

\* lines 96-97
h2_right_edge_shifted(input, width, output) ==
    LET o0 == Assign(output, width * 2,
                     Readable(input, width - 1) /\ Readable(input, width - 2),
                     At(input, width - 1) * 3 + At(input, width - 2) + 2, 2,
                     {At(input, width - 1), At(input, width - 2)})
    IN  Assign(o0, width * 2 + 1, Readable(input, width - 1),
               At(input, width - 1), 0, {At(input, width - 1)})
h2_right_edge(input, width, output) ==
    LET o0 == Assign(output, (width - 1) * 2,
                     Readable(input, width - 1) /\ Readable(input, width - 2),
                     At(input, width - 1) * 3 + At(input, width - 2) + 2, 2,
                     {At(input, width - 1), At(input, width - 2)})
    IN  Assign(o0, (width - 1) * 2 + 1, Readable(input, width - 1),
               At(input, width - 1), 0, {At(input, width - 1)})

resample_row_h_2_bilinear(input, input_size, row_stride, row, output_width, output) ==
    IF row * row_stride > Len(input) THEN Panic(output)
    ELSE LET in == Slice(input, row * row_stride)
         IN  IF input_size.width = 1 THEN h2_single(in, output)
             ELSE h2_right_edge(in, input_size.width,
                      h2_loop(in, 1, input_size.width - 1,
                              h2_left_edge(in, output)))

(***************************************************************************)
(* resample_row_v_2_bilinear (lines 100-112)                               *)
(***************************************************************************)
\* line 110
v2_body_even_weights(input_near, input_far, i, output) ==
    Assign(output, i, Readable(input_near, i) /\ Readable(input_far, i),
           2 * At(input_near, i) + At(input_far, i) + 2, 2,
           {At(input_near, i), At(input_far, i)})
v2_body(input_near, input_far, i, output) ==
    Assign(output, i, Readable(input_near, i) /\ Readable(input_far, i),
           3 * At(input_near, i) + At(input_far, i) + 2, 2,
           {At(input_near, i), At(input_far, i)})

\* line 109
RECURSIVE v2_loop(_, _, _, _, _)
v2_loop(input_near, input_far, i, output_width, output) ==
    IF i >= output_width THEN output
    ELSE v2_loop(input_near, input_far, i + 1, output_width,
                 v2_body(input_near, input_far, i, output))

resample_row_v_2_bilinear(input, input_size, row_stride, row, output_width, output) ==
    LET near_off == row_near_index(row) * row_stride
        far_off == row_far_index(row, input_size.height) * row_stride
    IN  IF near_off > Len(input) \/ far_off > Len(input) THEN Panic(output)
        ELSE v2_loop(Slice(input, near_off), Slice(input, far_off), 0,
                     output_width, output)

(***************************************************************************)
(* resample_row_hv_2_bilinear (lines 114-142)                              *)
(***************************************************************************)
\* 3 * input_near[i] as u32 + input_far[i] as u32
hv2_t(input_near, input_far, i) == U32(3 * At(input_near, i) + At(input_far, i))

hv2_reads(input_near, input_far, i) ==
    Readable(input_near, i) /\ Readable(input_far, i)

hv2_src(input_near, input_far, i) == {At(input_near, i), At(input_far, i)}

\* lines 124-126
hv2_single(input_near, input_far, output) ==
    LET reads == hv2_reads(input_near, input_far, 0)
        sum == 3 * At(input_near, 0) + At(input_far, 0) + 2
        src == hv2_src(input_near, input_far, 0)
    IN  Assign(Assign(output, 0, reads, sum, 2, src), 1, reads, sum, 2, src)

\* lines 130-131
hv2_left_edge(input_near, input_far, output) ==
    Assign(output, 0, hv2_reads(input_near, input_far, 0),
           hv2_t(input_near, input_far, 0) + 2, 2,
           hv2_src(input_near, input_far, 0))

\* lines 134-138: t0 is the previous column's t1
hv2_body_swapped(input_near, input_far, i, output) ==
    LET t0 == hv2_t(input_near, input_far, i - 1)
        t1 == hv2_t(input_near, input_far, i)
        reads == hv2_reads(input_near, input_far, i - 1)
                 /\ hv2_reads(input_near, input_far, i)
        src == hv2_src(input_near, input_far, i - 1)
               \cup hv2_src(input_near, input_far, i)
    IN  Assign(Assign(output, i * 2 - 1, reads, 3 * t1 + t0 + 8, 4, src),
               i * 2, reads, 3 * t0 + t1 + 8, 4, src)
hv2_body(input_near, input_far, i, output) ==
    LET t0 == hv2_t(input_near, input_far, i - 1)
        t1 == hv2_t(input_near, input_far, i)
        reads == hv2_reads(input_near, input_far, i - 1)
                 /\ hv2_reads(input_near, input_far, i)
        src == hv2_src(input_near, input_far, i - 1)
               \cup hv2_src(input_near, input_far, i)
    IN  Assign(Assign(output, i * 2 - 1, reads, 3 * t0 + t1 + 8, 4, src),
               i * 2, reads, 3 * t1 + t0 + 8, 4, src)

\* line 133: for i in 1 .. input_size.width
RECURSIVE hv2_loop(_, _, _, _, _)
hv2_loop(input_near, input_far, i, end, output) ==
    IF i >= end THEN output
    ELSE hv2_loop(input_near, input_far, i + 1, end,
                  hv2_body(input_near, input_far, i, output))

\* line 141: t1 is the last column's value
hv2_right_edge(input_near, input_far, width, output) ==
    Assign(output, width * 2 - 1, hv2_reads(input_near, input_far, width - 1),
           hv2_t(input_near, input_far, width - 1) + 2, 2,
           hv2_src(input_near, input_far, width - 1))

resample_row_hv_2_bilinear(input, input_size, row_stride, row, output_width, output) ==
    LET near_off == row_near_index(row) * row_stride
        far_off == row_far_index(row, input_size.height) * row_stride
    IN  IF near_off > Len(input) \/ far_off > Len(input) THEN Panic(output)
        ELSE LET input_near == Slice(input, near_off)
                 input_far == Slice(input, far_off)
             IN  IF input_size.width = 1
                 THEN hv2_single(input_near, input_far, output)
                 ELSE hv2_right_edge(input_near, input_far, input_size.width,
                          hv2_loop(input_near, input_far, 1, input_size.width,
                                   hv2_left_edge(input_near, input_far, output)))

\* type ResampleFunc (line 5): the four functions a Resampler can hold.
ResampleFuncs == {"resample_row_1", "resample_row_h_2_bilinear",
                  "resample_row_v_2_bilinear", "resample_row_hv_2_bilinear"}

\* A call through a ResampleFunc pointer (line 39).
CallResampleFunc(f, input, input_size, row_stride, row, output_width, output) ==
    CASE f = "resample_row_1" ->
            resample_row_1(input, input_size, row_stride, row, output_width, output)
      [] f = "resample_row_h_2_bilinear" ->
            resample_row_h_2_bilinear(input, input_size, row_stride, row, output_width, output)
      [] f = "resample_row_v_2_bilinear" ->
            resample_row_v_2_bilinear(input, input_size, row_stride, row, output_width, output)
      [] f = "resample_row_hv_2_bilinear" ->
            resample_row_hv_2_bilinear(input, input_size, row_stride, row, output_width, output)

(***************************************************************************)
(* Resampler::new (lines 14-32) and choose_resampling_func (lines 53-68)   *)
(***************************************************************************)
Size2D(w, h) == [width |-> w, height |-> h]

\* parser::Component: the fields the resampler reads.
Component(hf, vf, w, h, bw) ==
    [horizontal_sampling_factor |-> hf, vertical_sampling_factor |-> vf,
     size |-> Size2D(w, h), block_size |-> [width |-> bw]]

\* comp.block_size.width as usize * 8 (line 29)
RowStride(block_width) == block_width * 8

RECURSIVE Gcd(_, _)
Gcd(a, b) == IF b = 0 THEN a ELSE Gcd(b, a % b)

\* num::rational::Ratio::new: the fraction in lowest terms.
Ratio(numer, denom) ==
    LET g == Gcd(numer, denom)
    IN  [numer |-> numer \div g, denom |-> denom \div g]

\* Ratio::is_integer
is_integer(r) == r.denom = 1

\* Ratio::to_integer
to_integer(r) == r.numer \div r.denom

\* lines 53-68; the Option<ResampleFunc> is "None" or the function.
choose_resampling_func_truncating(component, h_max, v_max) ==
    LET horizontal_scale_factor == Ratio(h_max, component.horizontal_sampling_factor)
        vertical_scale_factor == Ratio(v_max, component.vertical_sampling_factor)
        pair == <<to_integer(horizontal_scale_factor), to_integer(vertical_scale_factor)>>
    IN  CASE pair = <<1, 1>> -> "resample_row_1"
          [] pair = <<2, 1>> -> "resample_row_h_2_bilinear"
          [] pair = <<1, 2>> -> "resample_row_v_2_bilinear"
          [] pair = <<2, 2>> -> "resample_row_hv_2_bilinear"
          [] OTHER -> "None"
choose_resampling_func(component, h_max, v_max) ==
    LET horizontal_scale_factor == Ratio(h_max, component.horizontal_sampling_factor)
        vertical_scale_factor == Ratio(v_max, component.vertical_sampling_factor)
        pair == <<to_integer(horizontal_scale_factor), to_integer(vertical_scale_factor)>>
    IN  IF ~is_integer(horizontal_scale_factor) \/ ~is_integer(vertical_scale_factor)
        THEN "None"
        ELSE CASE pair = <<1, 1>> -> "resample_row_1"
               [] pair = <<2, 1>> -> "resample_row_h_2_bilinear"
               [] pair = <<1, 2>> -> "resample_row_v_2_bilinear"
               [] pair = <<2, 2>> -> "resample_row_hv_2_bilinear"
               [] OTHER -> "None"

\* Option<Resampler>: None is the empty sequence, Some(r) the sequence <<r>>.
None == <<>>
Some(r) == <<r>>
Unwrap(opt) == opt[1]

\* lines 14-32
Resampler_new(comps) ==
    LET h_max == MaxOf({comps[i].horizontal_sampling_factor : i \in 1..Len(comps)})
        v_max == MaxOf({comps[i].vertical_sampling_factor : i \in 1..Len(comps)})
        resample_funcs == [i \in 1..Len(comps) |->
                             choose_resampling_func(comps[i], h_max, v_max)]
    IN  IF \E i \in 1..Len(comps) : resample_funcs[i] = "None"
        THEN None
        ELSE Some([resample_funcs |-> resample_funcs,
                   sizes |-> [i \in 1..Len(comps) |-> comps[i].size],
                   row_strides |-> [i \in 1..Len(comps) |->
                                      RowStride(comps[i].block_size.width)]])

(***************************************************************************)
(* Resampler::resample_and_interleave_row (lines 34-50)                    *)
(***************************************************************************)
\* lines 46-48: for x in 0 .. output_width { output[x * component_count + i] = line_buffer[x]; }
RECURSIVE scatter_loop_inclusive(_, _, _, _, _, _)
scatter_loop_inclusive(line_buffer, x, output_width, component_count, i, output) ==
    IF x > output_width THEN output
    ELSE scatter_loop_inclusive(line_buffer, x + 1, output_width, component_count, i,
             Assign(output, x * component_count + i, Readable(line_buffer.mem, x),
                    At(line_buffer.mem, x), 0, {At(line_buffer.mem, x)}))
RECURSIVE scatter_loop_planar(_, _, _, _, _, _)
scatter_loop_planar(line_buffer, x, output_width, component_count, i, output) ==
    IF x >= output_width THEN output
    ELSE scatter_loop_planar(line_buffer, x + 1, output_width, component_count, i,
             Assign(output, i * output_width + x, Readable(line_buffer.mem, x),
                    At(line_buffer.mem, x), 0, {At(line_buffer.mem, x)}))
RECURSIVE scatter_loop(_, _, _, _, _, _)
scatter_loop(line_buffer, x, output_width, component_count, i, output) ==
    IF x >= output_width THEN output
    ELSE scatter_loop(line_buffer, x + 1, output_width, component_count, i,
             Assign(output, x * component_count + i, Readable(line_buffer.mem, x),
                    At(line_buffer.mem, x), 0, {At(line_buffer.mem, x)}))

\* The scratch row as the next component's function receives it: the same
\* memory, with an empty write history.
Reused(line_buffer) == [line_buffer EXCEPT !.log = <<>>]

\* lines 38-49: the loop over the components.  st.output is the output row,
\* st.line_buffer the scratch row, st.rows the scratch row after each
\* component's function returned.
RECURSIVE component_loop(_, _, _, _, _, _)
component_loop(self, data, row, output_width, i, st) ==
    LET component_count == Len(data) IN
    IF i >= component_count \/ st.output.panic THEN st
    ELSE IF i >= Len(self.resample_funcs) \/ i >= Len(self.sizes)
            \/ i >= Len(self.row_strides)
         THEN [st EXCEPT !.output = Panic(@)]
    ELSE LET filled == CallResampleFunc(self.resample_funcs[i + 1], data[i + 1],
                                        self.sizes[i + 1], self.row_strides[i + 1],
                                        row, output_width, Reused(st.line_buffer))
         IN  IF filled.panic
             THEN [output |-> Panic(st.output), line_buffer |-> filled,
                   rows |-> Append(st.rows, filled)]
             ELSE component_loop(self, data, row, output_width, i + 1,
                      [output |-> scatter_loop(filled, 0, output_width, component_count,
                                               i, st.output),
                       line_buffer |-> filled,
                       rows |-> Append(st.rows, filled)])

\* lines 34-50
resample_and_interleave_row(self, data, row, output_width, output) ==
    component_loop(self, data, row, output_width, 0,
                   [output |-> Reused(output),
                    \* line 36: let mut line_buffer = vec![0u8; output_width + 1];
                    line_buffer |-> Buffer(Zeros(output_width + 1)),
                    rows |-> <<>>])

(***************************************************************************)
(* Single-row runs: one ResampleFunc applied to one plane.                 *)
(***************************************************************************)

\* Rows of samples of a given width.
RowsOf(w) == [1..w -> SampleValues]

\* A decoded plane of `height` rows of `stride` bytes whose rows alternate
\* between the sample rows a and b; the bytes past the width repeat the row's
\* last sample (block padding).
PlaneAB(a, b, height, stride) ==
    [k \in 1..(height * stride) |->
        LET r == (k - 1) \div stride
            c == (k - 1) % stride
            pat == IF r % 2 = 0 THEN a ELSE b
        IN  IF c < Len(pat) THEN pat[c + 1] ELSE pat[Len(pat)]]

\* A plane whose every byte is k.
ConstantPlane(k, height, stride) == [j \in 1..(height * stride) |-> k]

Doubles(f) == f \in {"resample_row_h_2_bilinear", "resample_row_hv_2_bilinear"}
TwoRows(f) == f \in {"resample_row_v_2_bilinear", "resample_row_hv_2_bilinear"}

\* Output rows a component of the given height is asked for.
OutputRows(f, height) == IF TwoRows(f) THEN 0..(2 * height - 1) ELSE 0..(height - 1)

\* Output widths tried for a component of the given width.
OutputWidths(f, width) ==
    IF Doubles(f)
    THEN {n \in (2 * width - 2)..(2 * width + MaxExtra) : n >= 1}
    ELSE {n \in (width - 1)..(width + MaxExtra) : n >= 1}

RowIdle ==
    /\ f_func = "resample_row_1" /\ f_input = <<>> /\ f_input_size = Size2D(1, 1)
    /\ f_row_stride = RowStride(1) /\ f_row = 0 /\ f_output_width = 0
    /\ f_output = Buffer(<<>>)

MapIdle == row_map = [row |-> 0, height |-> 1, row_near |-> 0, row_far |-> 0]

NoCall == [row |-> 0, output_width |-> 0, rows |-> <<>>, calls |-> 0]

ProgIdle ==
    /\ components = <<>> /\ resampler = None /\ component_data = <<>>
    /\ output_buffer = Buffer(<<>>) /\ last_call = NoCall

InitRow ==
    /\ ProgIdle
    /\ MapIdle
    /\ pc = "call"
    /\ f_func \in ResampleFuncs
    /\ \E w \in 1..MaxWidth, h \in 1..MaxHeight :
          /\ f_input_size = Size2D(w, h)
          /\ f_row_stride = RowStride(1)
          /\ \/ \E a \in RowsOf(w), b \in RowsOf(w) :
                   /\ TwoRows(f_func) \/ b = a
                   /\ f_input = PlaneAB(a, b, h, f_row_stride)
             \/ \E k \in 0..255 :
                   f_input = ConstantPlane(k, h, f_row_stride)
          /\ f_row \in OutputRows(f_func, h)
          /\ f_output_width \in OutputWidths(f_func, w)
    \* line 36: let mut line_buffer = vec![0u8; output_width + 1];
    /\ f_output = Buffer(Zeros(f_output_width + 1))

\* line 39: self.resample_funcs[i](&component_data[i], ..., &mut line_buffer)
RunResampleFunc ==
    /\ pc = "call"
    /\ f_output' = CallResampleFunc(f_func, f_input, f_input_size, f_row_stride, f_row,
                                       f_output_width, f_output)
    /\ pc' = "done"
    /\ UNCHANGED <<f_func, f_input, f_input_size, f_row_stride, f_row, f_output_width>>
    /\ UNCHANGED progVars
    /\ UNCHANGED row_map

NextRow == RunResampleFunc

SpecRow == InitRow /\ [][NextRow]_vars

(***************************************************************************)
(* Properties of one ResampleFunc call (C3, C4, C6, C9, C10).              *)
(***************************************************************************)
Clamp(x, lo, hi) == IF x < lo THEN lo ELSE IF x > hi THEN hi ELSE x

\* The integer rule: the previous source row for an even output row, the next
\* one for an odd output row, kept inside the plane.
IntegerRowFarOf(r, h) ==
    Clamp((r \div 2) + (IF r % 2 = 1 THEN 1 ELSE 0 - 1), 0, h - 1)

RowDone == pc = "done" /\ ~f_output.panic
RowWidth == f_input_size.width

\* Sample i of source row r of the plane; sample j of the scratch row.
In(r, i) == f_input[r * f_row_stride + i + 1]
Out(j) == f_output.mem[j + 1]

\* Every index of S is written, each exactly once.
WrittenOnce(S) ==
    /\ Written(f_output) = S
    /\ Len(f_output.log) = Cardinality(S)

Blend31(a, b) == (3 * a + b + 2) \div 4

\* C3: the horizontal-double function on a source row in[0..w): for w = 1
\* out[0] = out[1] = in[0]; for w >= 2 out[0] = in[0],
\* out[1] = (3 in[0] + in[1] + 2) >> 2, out[2w-2] = (3 in[w-1] + in[w-2] + 2) >> 2,
\* out[2w-1] = in[w-1], and for 1 <= i <= w-2 out[2i] = (3 in[i] + 2 + in[i-1]) >> 2,
\* out[2i+1] = (3 in[i] + 2 + in[i+1]) >> 2; every index 0..2w-1 is written by
\* exactly these rules.
C3_HorizontalDouble ==
    (RowDone /\ f_func = "resample_row_h_2_bilinear") =>
        LET w == RowWidth
            in(i) == In(f_row, i)
        IN  /\ WrittenOnce(0..(2 * w - 1))
            /\ w = 1 => Out(0) = in(0) /\ Out(1) = in(0)
            /\ w >= 2 =>
                  /\ Out(0) = in(0)
                  /\ Out(1) = Blend31(in(0), in(1))
                  /\ Out(2 * w - 2) = Blend31(in(w - 1), in(w - 2))
                  /\ Out(2 * w - 1) = in(w - 1)
                  /\ \A i \in 1..(w - 2) :
                        /\ Out(2 * i) = Blend31(in(i), in(i - 1))
                        /\ Out(2 * i + 1) = Blend31(in(i), in(i + 1))

\* A row with an interior sample whose two outputs lean to different
\* neighbours.
C3_Witness ==
    /\ RowDone /\ f_func = "resample_row_h_2_bilinear"
    /\ RowWidth >= 3
    /\ Out(2) # Out(3)
    /\ Out(1) # In(f_row, 0)

\* t[i] = 3*near[i] + far[i], with the near and far rows of the integer rule.
T(i) == 3 * In(f_row \div 2, i) + In(IntegerRowFarOf(f_row, f_input_size.height), i)

\* C4: the horizontal+vertical-double function on near/far rows of width w:
\* for w = 1 out[0] = out[1] = (t[0] + 2) >> 2; for w >= 2
\* out[0] = (t[0] + 2) >> 2, out[2w-1] = (t[w-1] + 2) >> 2 and for 1 <= i <= w-1
\* out[2i-1] = (3 t[i-1] + t[i] + 8) >> 4, out[2i] = (3 t[i] + t[i-1] + 8) >> 4;
\* every index 0..2w-1 is written exactly once.
C4_HorizontalVerticalDouble ==
    (RowDone /\ f_func = "resample_row_hv_2_bilinear") =>
        LET w == RowWidth
        IN  /\ WrittenOnce(0..(2 * w - 1))
            /\ w = 1 => Out(0) = (T(0) + 2) \div 4 /\ Out(1) = (T(0) + 2) \div 4
            /\ w >= 2 =>
                  /\ Out(0) = (T(0) + 2) \div 4
                  /\ Out(2 * w - 1) = (T(w - 1) + 2) \div 4
                  /\ \A i \in 1..(w - 1) :
                        /\ Out(2 * i - 1) = (3 * T(i - 1) + T(i) + 8) \div 16
                        /\ Out(2 * i) = (3 * T(i) + T(i - 1) + 8) \div 16

\* Two different source rows blended, and two columns whose outputs differ.
C4_Witness ==
    /\ RowDone /\ f_func = "resample_row_hv_2_bilinear"
    /\ RowWidth >= 2
    /\ f_row \div 2 # IntegerRowFarOf(f_row, f_input_size.height)
    /\ T(0) # T(1)
    /\ Out(1) # Out(2)

IsConstant(k) == \A j \in 1..Len(f_input) : f_input[j] = k

\* C6: on a plane whose every sample is k (0 <= k <= 255) the vertical-double
\* function outputs k at every column of every valid output row, and the
\* horizontal+vertical-double function outputs k at every output position, the
\* edges and the width-1 case included.
C6_ConstantPlane ==
    \A k \in 0..255 :
        (RowDone /\ IsConstant(k)) =>
            /\ f_func = "resample_row_v_2_bilinear" =>
                  \A j \in 0..(f_output_width - 1) : Out(j) = k
            /\ f_func = "resample_row_hv_2_bilinear" =>
                  \A j \in 0..(2 * RowWidth - 1) : Out(j) = k

\* The brightest constant plane through the horizontal+vertical-double
\* function, on the last output row.
C6_Witness ==
    /\ RowDone /\ IsConstant(255)
    /\ f_func = "resample_row_hv_2_bilinear"
    /\ RowWidth >= 2
    /\ f_row = 2 * f_input_size.height - 1
    /\ Out(2 * RowWidth - 1) = 255

\* C9: no function writes outside the scratch row of output_width + 1 bytes;
\* the identity and vertical-double functions write exactly the indices
\* 0..output_width-1, the two horizontally doubling functions exactly the
\* indices 0..2w-1, and they return without a panic whenever
\* output_width >= 2w - 1.
C9_ScratchBounds ==
    pc = "done" =>
        /\ Len(f_output.mem) = f_output_width + 1
        /\ \A j \in Written(f_output) : j \in 0..f_output_width
        /\ ~f_output.panic =>
              Written(f_output) = IF Doubles(f_func) THEN 0..(2 * RowWidth - 1)
                                  ELSE 0..(f_output_width - 1)
        /\ (Doubles(f_func) /\ f_output_width >= 2 * RowWidth - 1) => ~f_output.panic
        /\ ~Doubles(f_func) => ~f_output.panic

\* An odd output width: the highest index written is output_width itself, the
\* spare byte of the scratch row.
C9_Witness ==
    /\ RowDone /\ Doubles(f_func)
    /\ RowWidth >= 2
    /\ f_output_width = 2 * RowWidth - 1
    /\ f_output_width \in Written(f_output)

\* C10: for byte inputs every u32 intermediate fits in 32 bits, every shifted
\* result is in 0..255 so that `as u8` drops no bit, and every output sample
\* lies between the least and the greatest input sample it blends.
C10_Range ==
    pc = "done" =>
        \A n \in 1..Len(f_output.log) :
            LET e == f_output.log[n]
            IN  /\ e.sum >= 0 /\ e.sum \div 65536 < 65536
                /\ e.sum \div Pow2(e.shift) \in 0..255
                /\ Out(e.idx) = e.sum \div Pow2(e.shift)
                /\ MinOf(e.src) <= Out(e.idx)
                /\ Out(e.idx) <= MaxOf(e.src)

\* The largest intermediate there is: four samples of 255 in the 16-weight
\* blend, 3*1020 + 1020 + 8.
C10_Witness ==
    /\ RowDone
    /\ \E n \in 1..Len(f_output.log) :
          /\ f_output.log[n].sum = 4088
          /\ f_output.log[n].shift = 4
          /\ Out(f_output.log[n].idx) = 255

(***************************************************************************)
(* Row-mapping runs: lines 101-107 / 115-121 for one (row, height).        *)
(***************************************************************************)
\* Heights around the point where f32 stops holding every multiple of 1/4.
LargeHeights == {Pow2(22), Pow2(22) + 1, Pow2(22) + 2}

\* Output rows tried for a large height: the rows around 2^23.
LargeRows(h) == {r \in (Pow2(23) - 6)..(Pow2(23) + 3) : r < 2 * h}

InitMap ==
    /\ ProgIdle
    /\ RowIdle
    /\ pc = "map"
    /\ \E h \in (1..MaxMapHeight) \cup LargeHeights :
       \E r \in IF h \in LargeHeights THEN LargeRows(h) ELSE 0..(2 * h - 1) :
          row_map = [row |-> r, height |-> h, row_near |-> 0, row_far |-> 0]

MapRow ==
    /\ pc = "map"
    /\ row_map' = [row_map EXCEPT
                      !.row_near = row_near_index(row_map.row),
                      !.row_far = row_far_index(row_map.row, row_map.height)]
    /\ pc' = "mapped"
    /\ UNCHANGED progVars
    /\ UNCHANGED rowVars

NextMap == MapRow

SpecMap == InitMap /\ [][NextMap]_vars

(***************************************************************************)
(* Properties of the row mapping.                                          *)
(***************************************************************************)
MapAgrees ==
    /\ row_map.row_near = row_map.row \div 2
    /\ row_map.row_far = IntegerRowFarOf(row_map.row, row_map.height)
    /\ row_map.row_near \in 0..(row_map.height - 1)
    /\ row_map.row_far \in 0..(row_map.height - 1)

RECURSIVE SeqsUpTo(_, _)
SeqsUpTo(S, n) ==
    IF n = 0 THEN {}
    ELSE SeqsUpTo(S, n - 1) \cup [1..n -> S]

\* Component lists that differ in their sampling factors only.
FactorLists ==
    SeqsUpTo({Component(hf, vf, 1, 1, 1) : hf \in 1..MaxFactor, vf \in 1..MaxFactor},
             MaxComponents)

\* Component lists for the row calls: factors 1 or 2, small planes.
RowComponentLists ==
    SeqsUpTo({Component(hf, vf, w, h, 1) :
                 hf \in 1..2, vf \in 1..2,
                 w \in 1..MaxCallWidth, h \in 1..MaxCallHeight},
             MaxRowComponents)

\* The caller's output row: long enough for every call, with one byte to spare.
OutputLen == MaxOutputWidth * MaxRowComponents + 1
FreshOutput == Buffer([k \in 1..OutputLen |-> 200 + k])

\* A decoded plane: `height` rows of `stride` bytes, every byte different.
PatternPlane(seed, height, stride) ==
    [k \in 1..(height * stride) |-> (50 * seed + 3 * k) % 256]

PlaneSets(self) ==
    {[i \in 1..Len(self.sizes) |->
         PatternPlane(seeds[i], self.sizes[i].height, self.row_strides[i])] :
     seeds \in [1..Len(self.sizes) -> 1..MaxSeed]}

\* Output rows that exist for every component.
ValidRows(self) ==
    {r \in 0..(2 * MaxCallHeight - 1) :
        \A i \in 1..Len(self.sizes) :
            r < (IF TwoRows(self.resample_funcs[i]) THEN 2 ELSE 1) * self.sizes[i].height}

Init ==
    /\ components = <<>> /\ resampler = None /\ component_data = <<>>
    /\ output_buffer = FreshOutput /\ last_call = NoCall
    /\ RowIdle /\ MapIdle
    /\ pc = "start"

\* Resampler::new(components)
NewFrom(lists) ==
    /\ pc = "start"
    /\ \E comps \in lists :
          /\ components' = comps
          /\ resampler' = Resampler_new(comps)
    /\ pc' = IF resampler' = None THEN "failed" ELSE "built"
    /\ UNCHANGED <<component_data, output_buffer, last_call, row_map>>
    /\ UNCHANGED rowVars

NewForRows == NewFrom(RowComponentLists)

NewForFactors == NewFrom(FactorLists)

\* The decoder hands over the decoded planes of the components, once, before
\* any output row is asked for.
LoadPlanes ==
    /\ pc = "built"
    /\ component_data' \in PlaneSets(Unwrap(resampler))
    /\ pc' = "loaded"
    /\ UNCHANGED <<components, resampler, output_buffer, last_call, row_map>>
    /\ UNCHANGED rowVars

\* resampler.resample_and_interleave_row(&component_data, row, output_width, &mut output)
ResampleAndInterleaveRow ==
    /\ pc \in {"loaded", "returned"}
    /\ last_call.calls < MaxCalls
    /\ \E row \in ValidRows(Unwrap(resampler)), output_width \in 1..MaxOutputWidth :
          LET st == resample_and_interleave_row(Unwrap(resampler), component_data, row,
                                                output_width, output_buffer)
          IN  /\ output_buffer' = st.output
              /\ last_call' = [row |-> row, output_width |-> output_width,
                               rows |-> st.rows, calls |-> last_call.calls + 1]
              /\ pc' = IF st.output.panic THEN "panicked" ELSE "returned"
    /\ UNCHANGED <<components, resampler, component_data, row_map>>
    /\ UNCHANGED rowVars

Next == NewForRows \/ LoadPlanes \/ ResampleAndInterleaveRow

Spec == Init /\ [][Next]_vars

NextNew == NewForFactors

SpecNew == Init /\ [][NextNew]_vars

(***************************************************************************)
(* C1: strategy selection.                                                 *)
(***************************************************************************)
HMax == MaxOf({components[i].horizontal_sampling_factor : i \in 1..Len(components)})
VMax == MaxOf({components[i].vertical_sampling_factor : i \in 1..Len(components)})

Divides(d, n) == n % d = 0

\* The table of section 4.1.
StrategyTable ==
    [p \in {<<1, 1>>, <<2, 1>>, <<1, 2>>, <<2, 2>>} |->
        CASE p = <<1, 1>> -> "resample_row_1"
          [] p = <<2, 1>> -> "resample_row_h_2_bilinear"
          [] p = <<1, 2>> -> "resample_row_v_2_bilinear"
          [] p = <<2, 2>> -> "resample_row_hv_2_bilinear"]

RatioPair(i) ==
    <<HMax \div components[i].horizontal_sampling_factor,
      VMax \div components[i].vertical_sampling_factor>>

Supported(i) ==
    /\ Divides(components[i].horizontal_sampling_factor, HMax)
    /\ Divides(components[i].vertical_sampling_factor, VMax)
    /\ RatioPair(i) \in DOMAIN StrategyTable

\* C1: Resampler::new returns a Resampler if and only if every component's two
\* ratios h_max/h_i and v_max/v_i are integers and form one of the pairs (1,1),
\* (2,1), (1,2), (2,2); the strategy stored at position i is then the table's
\* entry for component i's pair, and one unsupported component gives None.
C1_Selection ==
    pc \in {"built", "failed"} =>
        /\ (resampler # None) <=> (\A i \in 1..Len(components) : Supported(i))
        /\ (pc = "built") <=> (resampler # None)
        /\ resampler # None =>
              /\ Len(Unwrap(resampler).resample_funcs) = Len(components)
              /\ \A i \in 1..Len(components) :
                    Unwrap(resampler).resample_funcs[i] = StrategyTable[RatioPair(i)]

\* A three-component 4:2:0 layout: full-resolution luma, two chroma planes
\* doubled in both directions.
C1_Witness ==
    /\ pc = "built"
    /\ Len(components) = 3
    /\ Unwrap(resampler).resample_funcs =
          <<"resample_row_1", "resample_row_hv_2_bilinear", "resample_row_hv_2_bilinear">>

(***************************************************************************)
(* Properties of one row call (C2, C7, C8).                                *)
(***************************************************************************)
CallSelf == Unwrap(resampler)
CallCount == Len(component_data)

\* The row component i's function produces from its own plane alone, in a
\* scratch row no other function has written (i counts from 1).
OwnRow(data, i) ==
    CallResampleFunc(CallSelf.resample_funcs[i], data[i], CallSelf.sizes[i],
                     CallSelf.row_strides[i], last_call.row, last_call.output_width,
                     Buffer(Zeros(last_call.output_width + 1)))

OutputAt(buf, x, i) == buf.mem[x * CallCount + (i - 1) + 1]

VectorsAgree ==
    resampler # None =>
        /\ Len(Unwrap(resampler).resample_funcs) = Len(components)
        /\ Len(Unwrap(resampler).sizes) = Len(components)
        /\ Len(Unwrap(resampler).row_strides) = Len(components)

IsRowCall == last_call'.calls = last_call.calls + 1

RowCallFrame ==
    /\ resampler' = resampler
    /\ component_data' = component_data
    /\ Len(output_buffer'.mem) = Len(output_buffer.mem)
    /\ \A k \in 0..(Len(output_buffer.mem) - 1) :
          k >= last_call'.output_width * Len(component_data) =>
              output_buffer'.mem[k + 1] = output_buffer.mem[k + 1]

\* C7: every row call, whether it returns or panics, changes only output_buffer
\* positions below output_width * component_count; the positions from there on,
\* the component planes and the Resampler's three vectors keep their contents,
\* and the vectors keep the length of the component list.
C7_Frame == [][(IsRowCall => RowCallFrame) /\ VectorsAgree']_vars

\* A second call on the same buffer with a narrower row: the bytes past its
\* region still hold what the first call wrote there.
C7_Witness ==
    /\ pc = "returned"
    /\ last_call.calls = 2
    /\ \E k \in 0..(Len(output_buffer.mem) - 1) :
          /\ k >= last_call.output_width * CallCount
          /\ output_buffer.mem[k + 1] # FreshOutput.mem[k + 1]

\* The same call on the same Resampler with other planes and a fresh output
\* buffer.
OtherCall(data) ==
    resample_and_interleave_row(CallSelf, data, last_call.row,
                                last_call.output_width, FreshOutput).output

\* Whether component i's function writes scratch index x.
Fills(i, x) ==
    Doubles(CallSelf.resample_funcs[i]) => x < 2 * CallSelf.sizes[i].width

\* C8 as stated: for every component i and every x < output_width, two calls
\* that differ only in the other components' planes (or in what the output
\* buffer held) write the same value to output_buffer[x*component_count + i].
C8_OwnPlaneOnly ==
    pc = "returned" =>
        \A data \in PlaneSets(CallSelf) : \A i \in 1..CallCount :
            data[i] = component_data[i] =>
                \A x \in 0..(last_call.output_width - 1) :
                    OutputAt(OtherCall(data), x, i) = OutputAt(output_buffer, x, i)

\* C8 amended: the same for every x < output_width that component i's function
\* writes: every x for the identity and vertical-double functions, x < 2*width
\* for the two horizontally doubling functions.
C8_OwnPlaneWhereFilled ==
    pc = "returned" =>
        \A data \in PlaneSets(CallSelf) : \A i \in 1..CallCount :
            data[i] = component_data[i] =>
                \A x \in 0..(last_call.output_width - 1) :
                    Fills(i, x) =>
                        OutputAt(OtherCall(data), x, i) = OutputAt(output_buffer, x, i)

\* A horizontally doubled second component whose 2*width samples cover the
\* output row, behind a first component with a plane of its own.
C8_Witness ==
    /\ pc = "returned"
    /\ CallCount = 2
    /\ Doubles(CallSelf.resample_funcs[2])
    /\ 2 * CallSelf.sizes[2].width >= last_call.output_width
    /\ last_call.output_width >= 2

====
